---------------------------- MODULE Spec2Model ----------------------------
(***************************************************************************)
(* A model of package task of charmingruby/fgp (src/task/task.go): the     *)
(* context-aware Task type and its combinators.  Each combinator that the  *)
(* properties below talk about is a state machine of its own, with its own *)
(* specification: SpecTraverse (TraverseParN and its delegates),           *)
(* SpecZip (ParZip and Both), SpecRace (Race), SpecRetry (Retry),          *)
(* SpecTimeout (Timeout with its timer) and SpecUnit (the sequential       *)
(* constructors and combinators, run on the calling goroutine one test of  *)
(* the context at a time).                                                 *)
(***************************************************************************)
EXTENDS Integers, Sequences, FiniteSets, Bags, TLC

(***************************************************************************)
(* Bounds of the model.                                                    *)
(***************************************************************************)
MaxItems == 3

MaxTasks == 3

MaxAttempts == 4

MaxDepth == 1

MaxDuration == 2

(***************************************************************************)
(* Errors and values.  An error is a pair <<description, tag>>; Nil is the *)
(* nil error, Canceled is context.Canceled.                                *)
(***************************************************************************)
Nil == <<"nil", 0>>

Canceled == <<"context canceled", 0>>

\* context.DeadlineExceeded.
DeadlineExceeded == <<"context deadline exceeded", 0>>

TaskErr(v) == <<"boom", v>>

Zero == 0

VARIABLES
    parentDone,   \* the caller's context is canceled
    ctxDone,      \* the derived child context is canceled
    derived,      \* a child context has been derived from the caller's
    mode,         \* which combinator this run calls
    mpc,          \* position of the calling goroutine
    ret,          \* what the call returned
    \* ---- TraverseParN
    items,        \* the input slice: items[i] = [v |-> payload, kind |-> behaviour of fn(item)]
    n,            \* the requested concurrency limit
    workers,      \* clampParallelism(len(items), n)
    jobs,         \* the jobs channel: a queue of workItem [index, item]
    jobsClosed,   \* close(jobs) has run
    errCh,        \* the error channel, capacity 1
    results,      \* the results slice
    enqIdx,       \* enqueueWork's loop index
    pool,         \* the worker goroutines: a bag of [pc, job, err]
    firstPub,     \* history: the first error a worker sent on errCh
    invoked,      \* history: how many times fn(items[i]) was invoked
    \* ---- Race
    tasks,        \* the tasks given to Race: tasks[i] is the behaviour of task i
    outcomes,     \* the outcomes channel, capacity len(tasks)
    got,          \* iterations of awaitRaceResult's loop completed
    firstErr,     \* awaitRaceResult's firstErr
    racers,       \* the goroutines of startRaceWorkers: a bag of [pc, task, out]
    sent,         \* history: the outcomes in the order the tasks reported them
    \* ---- Retry
    cfg,          \* the RetryConfig: [Attempts, Delay, Backoff, ShouldRetry]
    script,       \* the wrapped task: the error classes of its first invocations
    attempts,     \* Retry's attempts
    attempt,      \* Retry's loop variable
    lastErr,      \* Retry's lastErr
    delay,        \* the delay of the wait in progress
    calls,        \* history: invocations of the wrapped task
    waits,        \* history: waits between attempts that ran to their end
    \* ---- the sequential constructors and combinators
    term,         \* the task that is invoked, as the expression that built it
    obs,          \* what the tests of the context made so far saw, in order
    scope,        \* the Timeout the invocation is under: the tests made before it (-1: none)
    expired,      \* the deadline of that Timeout has expired
    timer,        \* the duration of the timer the invocation waits for (0: none)
    waited,       \* time passed in the last wait
    ulog,         \* history: the user functions the invocation ran, in order
    \* ---- Timeout
    wrapped,      \* the behaviour of the task given to Timeout
    duration,     \* the duration d given to Timeout
    elapsed,      \* time passed since the child context was derived
    timerFired    \* the timer of the child context has fired

tvars == <<items, n, workers, jobs, jobsClosed, errCh, results, enqIdx,
           pool, firstPub, invoked>>

rvars == <<tasks, outcomes, got, firstErr, racers, sent>>

\* The contexts and the combinator called.
cvars == <<parentDone, ctxDone, derived, mode>>

yvars == <<cfg, script, attempts, attempt, lastErr, delay, calls, waits>>

uvars == <<term, obs, scope, expired, timer, waited, ulog>>

ovars == <<wrapped, duration, elapsed, timerFired>>

\* The state of the combinators.
machines == <<tvars, rvars, yvars, uvars, ovars>>

vars == <<cvars, mpc, ret, machines>>

\* What TraverseParN does not touch.
notTraverse == <<rvars, yvars, uvars, ovars>>

\* What Race does not touch.
notRace == <<tvars, yvars, uvars, ovars>>

\* What Retry does not touch.
notRetry == <<ctxDone, derived, tvars, rvars, uvars, ovars>>

\* What the sequential combinators do not touch.
notUnit == <<ctxDone, derived, tvars, rvars, yvars, ovars>>

\* What Timeout does not touch.
notTimeout == <<tvars, rvars, yvars, uvars>>

----------------------------------------------------------------------------
(***************************************************************************)
(* TraverseParN (task.go:527-608).  The worker goroutines run the same     *)
(* closure and have no identity, so they are kept as a bag of local        *)
(* states.                                                                 *)
(***************************************************************************)
Kinds == {"ok", "fail", "block"}

\* fn(item) of the caller: the value an invocation on item produces.
FnValue(item) == item.v * 3

\* The error a failing invocation on item produces.
FnError(item) == TaskErr(item.v)

ClampAllMutant(total, requested) == total

clampParallelism(total, requested) ==
    IF requested <= 0 THEN 1
    ELSE IF requested > total THEN total
    ELSE requested

NoJob == [index |-> 0, item |-> [v |-> 0, kind |-> "ok"]]

\* A worker goroutine at position pc holding job, its invocation having returned err.
Worker(pc, job, err) == [pc |-> pc, job |-> job, err |-> err]

\* The pool after one worker moved from local state s to local state t.
Move(s, t) == (pool (-) SetToBag({s})) (+) SetToBag({t})

\* The workers at position pc.
At(pc) == {s \in BagToSet(pool) : s.pc = pc}

Count(pc) == BagCardinality([s \in At(pc) |-> pool[s]])

\* Number of fn(item)(ctx) invocations running now.
InFlight == Count("run")

\* The contexts before the call: the caller's is live, no child exists.
CtxInit ==
    /\ parentDone = FALSE
    /\ ctxDone = FALSE
    /\ derived = FALSE

\* Timeout is not running.
TimeoutIdle ==
    /\ wrapped = "ok"
    /\ duration = 0
    /\ elapsed = 0
    /\ timerFired = FALSE

\* Race is not running.
RaceIdle ==
    /\ tasks = <<>>
    /\ outcomes = <<>>
    /\ got = 0
    /\ firstErr = Nil
    /\ racers = EmptyBag
    /\ sent = <<>>

\* Retry is not running.
RetryIdle ==
    /\ cfg = [Attempts |-> 0, Delay |-> 0, Backoff |-> "nil", ShouldRetry |-> FALSE]
    /\ script = <<>>
    /\ attempts = 0
    /\ attempt = 0
    /\ lastErr = Nil
    /\ delay = 0
    /\ calls = 0
    /\ waits = 0

\* A task expression: the constructor or combinator op, its plain argument
\* and the tasks it is applied to.
T(op, arg, kids) == [op |-> op, arg |-> arg, kids |-> kids]

\* No sequential task is invoked.
UnitIdle ==
    /\ term = T("none", 0, <<>>)
    /\ obs = <<>>
    /\ scope = -1
    /\ expired = FALSE
    /\ timer = 0
    /\ waited = 0
    /\ ulog = <<>>

NoRet == [vals |-> <<>>, nilvals |-> TRUE, err |-> Nil]

ItemSeqs == UNION {[1..k -> Kinds] : k \in 0..MaxItems}

InitTraverse ==
    /\ mode = "traverse"
    /\ CtxInit
    /\ TimeoutIdle
    /\ RaceIdle
    /\ RetryIdle
    /\ UnitIdle
    /\ \E ks \in ItemSeqs : items = [i \in DOMAIN ks |-> [v |-> i, kind |-> ks[i]]]
    /\ n \in 0..(MaxItems + 1)
    /\ workers = 0
    /\ jobs = <<>>
    /\ jobsClosed = FALSE
    /\ errCh = <<>>
    /\ results = <<>>
    /\ mpc = "call"
    /\ enqIdx = 0
    /\ pool = EmptyBag
    /\ ret = NoRet
    /\ firstPub = Nil
    /\ invoked = [i \in DOMAIN items |-> 0]

\* task.go:528-560: the empty case, the clamp, the child context, the
\* buffers and the start of the workers.
TraverseCall ==
    /\ mode = "traverse" /\ mpc = "call"
    /\ IF Len(items) = 0
       THEN /\ ret' = [vals |-> <<>>, nilvals |-> FALSE, err |-> Nil]
            /\ mpc' = "done"
            /\ UNCHANGED <<workers, ctxDone, derived, results, pool, enqIdx>>
       ELSE /\ workers' = clampParallelism(Len(items), n)
            /\ ctxDone' = parentDone
            /\ derived' = TRUE
            /\ results' = [i \in 1..Len(items) |-> Zero]
            /\ pool' = [s \in {Worker("recv", NoJob, Nil)} |->
                          clampParallelism(Len(items), n)]
            /\ enqIdx' = 1
            /\ mpc' = "enqueue"
            /\ UNCHANGED ret
    /\ UNCHANGED <<parentDone, mode, items, n, jobs, jobsClosed, errCh,
                   firstPub, invoked, notTraverse>>

WorkItemFirstMutant(idx) == [index |-> 1, item |-> items[1]]

WorkItemShiftMutant(idx) == [index |-> (idx % Len(items)) + 1, item |-> items[idx]]

\* What enqueueWork sends for position idx (task.go:596).
workItem(idx) == [index |-> idx, item |-> items[idx]]

\* task.go:592-598: one turn of enqueueWork's loop taking the send case.
EnqueueSend ==
    /\ mode = "traverse" /\ mpc = "enqueue"
    /\ enqIdx <= Len(items)
    /\ Len(jobs) < Len(items)
    /\ jobs' = Append(jobs, workItem(enqIdx))
    /\ enqIdx' = enqIdx + 1
    /\ UNCHANGED <<cvars, items, n, workers, jobsClosed, errCh, results, mpc,
                   pool, ret, firstPub, invoked,
                   notTraverse>>

\* task.go:594-595: enqueueWork's select taking the ctx.Done case.
EnqueueStop ==
    /\ mode = "traverse" /\ mpc = "enqueue"
    /\ enqIdx <= Len(items)
    /\ ctxDone
    /\ mpc' = "close"
    /\ UNCHANGED <<cvars, items, n, workers, jobs, jobsClosed, errCh, results,
                   enqIdx, pool, ret, firstPub, invoked,
                   notTraverse>>

\* task.go:592,563: the loop is over; close(jobs).
CloseJobs ==
    /\ mode = "traverse"
    /\ \/ mpc = "close"
       \/ mpc = "enqueue" /\ enqIdx > Len(items)
    /\ jobsClosed' = TRUE
    /\ mpc' = "wait"
    /\ UNCHANGED <<cvars, items, n, workers, jobs, errCh, results, enqIdx,
                   pool, ret, firstPub, invoked,
                   notTraverse>>

\* task.go:543-544: a worker receives a job and invokes fn(job.item)(ctx).
WorkerRecv(s) ==
    /\ mode = "traverse" /\ s.pc = "recv"
    /\ jobs # <<>>
    /\ pool' = Move(s, Worker("run", Head(jobs), Nil))
    /\ jobs' = Tail(jobs)
    /\ invoked' = [invoked EXCEPT ![Head(jobs).item.v] = @ + 1]
    /\ UNCHANGED <<cvars, items, n, workers, jobsClosed, errCh, results, mpc,
                   enqIdx, ret, firstPub,
                   notTraverse>>

\* task.go:543,542: range over a closed, drained channel ends; wg.Done().
WorkerExit(s) ==
    /\ mode = "traverse" /\ s.pc = "recv"
    /\ jobs = <<>> /\ jobsClosed
    /\ pool' = Move(s, Worker("done", NoJob, Nil))
    /\ UNCHANGED <<cvars, items, n, workers, jobs, jobsClosed, errCh, results,
                   mpc, enqIdx, ret, firstPub, invoked,
                   notTraverse>>

ResultSlotFirstMutant(job) == 1

\* The slot a worker writes its value to (task.go:553).
resultSlot(job) == job.index

\* task.go:544-553: the invocation returns.  "ok" returns its value, which
\* the worker stores; "fail" returns its error; "block" waits for
\* ctx.Done() and returns ctx.Err().
WorkerReturn(s) ==
    /\ mode = "traverse" /\ s.pc = "run"
    /\ CASE s.job.item.kind = "ok" ->
              /\ results' = [results EXCEPT ![resultSlot(s.job)] = FnValue(s.job.item)]
              /\ pool' = Move(s, Worker("recv", NoJob, Nil))
         [] s.job.item.kind = "fail" ->
              /\ pool' = Move(s, Worker("publish", NoJob, FnError(s.job.item)))
              /\ UNCHANGED results
         [] s.job.item.kind = "block" ->
              /\ ctxDone
              /\ pool' = Move(s, Worker("publish", NoJob, Canceled))
              /\ UNCHANGED results
    /\ UNCHANGED <<cvars, items, n, workers, jobs, jobsClosed, errCh, mpc, enqIdx,
                   ret, firstPub, invoked,
                   notTraverse>>

TrySendOverwriteMutant(ch, e) == <<e>>

\* The non-blocking send on a channel of capacity 1 (task.go:546-549).
trySend(ch, e) == IF Len(ch) < 1 THEN Append(ch, e) ELSE ch

\* task.go:546-549: the worker publishes its error.
WorkerPublish(s) ==
    /\ mode = "traverse" /\ s.pc = "publish"
    /\ errCh' = trySend(errCh, s.err)
    /\ firstPub' = IF firstPub = Nil THEN s.err ELSE firstPub
    /\ pool' = Move(s, Worker("cancel", NoJob, Nil))
    /\ UNCHANGED <<cvars, items, n, workers, jobs, jobsClosed, results, mpc,
                   enqIdx, ret, invoked,
                   notTraverse>>

WorkerNoCancelMutant(s) ==
    /\ mode = "traverse" /\ s.pc = "cancel"
    /\ pool' = Move(s, Worker("done", NoJob, Nil))
    /\ UNCHANGED <<cvars, items, n, workers, jobs, jobsClosed, errCh,
                   results, mpc, enqIdx, ret, firstPub, invoked,
                   notTraverse>>

\* task.go:550-551,542: cancel(); return; wg.Done().
WorkerCancel(s) ==
    /\ mode = "traverse" /\ s.pc = "cancel"
    /\ ctxDone' = TRUE
    /\ pool' = Move(s, Worker("done", NoJob, Nil))
    /\ UNCHANGED <<parentDone, derived, mode, items, n, workers, jobs, jobsClosed, errCh,
                   results, mpc, enqIdx, ret, firstPub, invoked,
                   notTraverse>>

\* pullError (task.go:601-608).
pullError(ch) == IF ch # <<>> THEN Head(ch) ELSE Nil

TraverseResultPartialMutant(ch, done, res) ==
    IF pullError(ch) # Nil THEN [vals |-> res, nilvals |-> FALSE, err |-> pullError(ch)]
    ELSE IF done THEN [vals |-> <<>>, nilvals |-> TRUE, err |-> Canceled]
    ELSE [vals |-> res, nilvals |-> FALSE, err |-> Nil]

\* What TraverseParN returns once wg.Wait() is over (task.go:566-572).
traverseResult(ch, done, res) ==
    IF pullError(ch) # Nil THEN [vals |-> <<>>, nilvals |-> TRUE, err |-> pullError(ch)]
    ELSE IF done THEN [vals |-> <<>>, nilvals |-> TRUE, err |-> Canceled]
    ELSE [vals |-> res, nilvals |-> FALSE, err |-> Nil]

\* task.go:564-572,534: wg.Wait() returns, the outcome is decided, the
\* deferred cancel() runs.
TraverseReturn ==
    /\ mode = "traverse" /\ mpc = "wait"
    /\ Count("done") = workers
    /\ ret' = traverseResult(errCh, ctxDone, results)
    /\ errCh' = IF errCh # <<>> THEN Tail(errCh) ELSE errCh
    /\ ctxDone' = TRUE
    /\ mpc' = "done"
    /\ UNCHANGED <<parentDone, derived, mode, items, n, workers, jobs, jobsClosed, results,
                   enqIdx, pool, firstPub, invoked,
                   notTraverse>>

\* The caller cancels the context it passed in; a child derived from it is
\* canceled with it.
CallerCancel ==
    /\ ~parentDone
    /\ mpc # "done"
    /\ parentDone' = TRUE
    /\ ctxDone' = (ctxDone \/ derived)
    /\ UNCHANGED <<derived, mode, mpc, ret, machines>>

\* The steps of the program itself, without the caller's cancellation.
TraverseStep ==
    \/ TraverseCall
    \/ EnqueueSend
    \/ EnqueueStop
    \/ CloseJobs
    \/ \E s \in BagToSet(pool) : WorkerRecv(s)
    \/ \E s \in BagToSet(pool) : WorkerExit(s)
    \/ \E s \in BagToSet(pool) : WorkerReturn(s)
    \/ \E s \in BagToSet(pool) : WorkerPublish(s)
    \/ \E s \in BagToSet(pool) : WorkerCancel(s)
    \/ TraverseReturn

NextTraverse == TraverseStep \/ CallerCancel

SpecTraverse == InitTraverse /\ [][NextTraverse]_vars

\* The scheduler runs every goroutine that can take a step; the caller is
\* free never to cancel.
FairTraverse == SpecTraverse /\ WF_vars(TraverseStep)

----------------------------------------------------------------------------
(***************************************************************************)
(* Properties of TraverseParN.                                             *)
(***************************************************************************)
\* The worker count the documentation promises for a limit n over N items.
EffectiveWorkers ==
    IF n <= 0 THEN 1 ELSE IF n > Len(items) THEN Len(items) ELSE n

HasKind(k) == \E i \in DOMAIN items : items[i].kind = k

NumKind(k) == Cardinality({i \in DOMAIN items : items[i].kind = k})

\* An invocation of fn(item) has returned an error by the time the call is over.
AnyFailed ==
    \E i \in DOMAIN items : invoked[i] > 0 /\ items[i].kind \in {"fail", "block"}

\* C1: over N >= 1 items, the number of fn(item) invocations in flight never
\* exceeds the effective worker count: 1 when n <= 0, N when n > N, else n.
C1_InFlightBounded ==
    (mode = "traverse" /\ Len(items) >= 1) => InFlight <= EffectiveWorkers

\* The limit binds: as many invocations as allowed run while a job waits.
C1_Witness ==
    /\ mode = "traverse" /\ n >= 2 /\ n < Len(items)
    /\ InFlight = n /\ jobs # <<>>

\* C2: when the traversal returns without error, the result has len(items)
\* entries and entry i is the value of fn(items[i]), for every worker
\* count and completion order.
C2_OrderPreserved ==
    (mode = "traverse" /\ mpc = "done" /\ ret.err = Nil) =>
        /\ ~ret.nilvals
        /\ Len(ret.vals) = Len(items)
        /\ \A i \in DOMAIN items : ret.vals[i] = FnValue(items[i])

\* A successful traversal of three items by two workers.
C2_Witness ==
    /\ mode = "traverse" /\ mpc = "done" /\ ret.err = Nil
    /\ Len(items) >= 3 /\ workers = 2
    /\ ret.vals = [i \in DOMAIN items |-> FnValue(items[i])]

\* C3: if any invocation returned an error, the traversal returns a non-nil
\* error and a nil result slice, and the error is the first one a worker
\* published.
C3_FirstErrorNoPartial ==
    (mode = "traverse" /\ mpc = "done" /\ AnyFailed) =>
        /\ ret.err # Nil
        /\ ret.nilvals /\ ret.vals = <<>>
        /\ ret.err = firstPub

\* Two different errors were produced and a value had been stored; the
\* first error is returned and the value is dropped.
C3_Witness ==
    /\ mode = "traverse" /\ mpc = "done"
    /\ \E i \in DOMAIN items : items[i].kind = "ok" /\ results[i] # Zero
    /\ \E i, j \in DOMAIN items :
          /\ i # j /\ invoked[i] > 0 /\ invoked[j] > 0
          /\ items[i].kind = "fail" /\ items[j].kind = "fail"
          /\ ret.err = FnError(items[j]) /\ firstPub = FnError(items[j])
    /\ ret.nilvals

\* The original C4: a call with one failing and one blocking task always
\* terminates, whatever the worker count.
C4_Original ==
    (mode = "traverse" /\ HasKind("fail") /\ HasKind("block")) ~> (mpc = "done")

\* C4 (amended): under fair scheduling, a call with a failing task and
\* fewer blocking tasks than effective workers always terminates and
\* returns an error.
C4_FailFastTerminates ==
    (mode = "traverse" /\ HasKind("fail") /\ NumKind("block") < EffectiveWorkers)
        ~> (mpc = "done" /\ ret.err # Nil)

\* The caller never canceled; a failing task ran, a blocked task was
\* invoked and returned, and the call returned the failure.
C4_Witness ==
    /\ mode = "traverse" /\ mpc = "done" /\ ~parentDone
    /\ \E i, j \in DOMAIN items :
          /\ items[i].kind = "fail" /\ invoked[i] > 0
          /\ items[j].kind = "block" /\ invoked[j] > 0
          /\ ret.err = FnError(items[i])

\* C25: once the shared child context of TraverseParN is canceled, no
\* worker takes a further item from the queue and starts a new
\* fn(item) invocation.
C25_NoInvocationAfterCancel ==
    [][(mode = "traverse" /\ ctxDone) => invoked' = invoked]_vars

\* The indices that are in the queue or held by a running worker.
Claimed ==
    [i \in DOMAIN items |->
        Cardinality({k \in 1..Len(jobs) : jobs[k].index = i})
        + BagCardinality([s \in {w \in At("run") : w.job.index = i} |-> pool[s]])]

\* C29: in every run of TraverseParN each index is enqueued at most once
\* and held by at most one worker, fn is invoked at most once per item and
\* no two workers write the same slot; a successful traversal has invoked
\* every item exactly once, and the call returns only after every worker
\* has finished.
C29_EachItemOnce ==
    mode = "traverse" =>
        /\ \A i \in DOMAIN items : Claimed[i] <= 1 /\ invoked[i] <= 1
        /\ \A k \in 1..Len(jobs) : jobs[k].item = items[jobs[k].index]
        /\ \A w \in At("run") : w.job.item = items[w.job.index]
        /\ (mpc = "done" /\ ret.err = Nil) => \A i \in DOMAIN items : invoked[i] = 1
        /\ (mpc = "done" /\ Len(items) > 0) => Count("done") = workers

\* Two workers hold different items while a third item waits in the queue.
C29_Witness ==
    /\ mode = "traverse" /\ Len(items) = 3 /\ workers = 2
    /\ Count("run") = 2 /\ Len(jobs) = 1
    /\ \A i \in DOMAIN items : Claimed[i] = 1 /\ invoked[i] = (IF i = jobs[1].index THEN 0 ELSE 1)

----------------------------------------------------------------------------
(***************************************************************************)
(* ParZip and Both (task.go:401-458).  The two tasks are items[1] (left)   *)
(* and items[2] (right), with the behaviours of Kinds; their goroutines    *)
(* are the two workers of pool, results holds leftVal and rightVal, and    *)
(* errCh has capacity 2.                                                   *)
(***************************************************************************)
\* What ParZip returns: a Tuple2 and an error.
ZipRet(first, second, err) == [first |-> first, second |-> second, err |-> err]

InitZip ==
    /\ mode = "zip"
    /\ CtxInit
    /\ TimeoutIdle
    /\ RaceIdle
    /\ RetryIdle
    /\ UnitIdle
    /\ \E ks \in [1..2 -> Kinds] : items = [i \in 1..2 |-> [v |-> i, kind |-> ks[i]]]
    /\ n = 0
    /\ workers = 0
    /\ jobs = <<>>
    /\ jobsClosed = FALSE
    /\ errCh = <<>>
    /\ results = <<>>
    /\ mpc = "call"
    /\ enqIdx = 0
    /\ pool = EmptyBag
    /\ ret = ZipRet(Zero, Zero, Nil)
    /\ firstPub = Nil
    /\ invoked = [i \in 1..2 |-> 0]

\* task.go:404-443: the entry test of the context, the child context, the
\* error channel and the two goroutines, each invoking its task.
ZipCall ==
    /\ mode = "zip" /\ mpc = "call"
    /\ IF parentDone
       THEN /\ ret' = ZipRet(Zero, Zero, Canceled)
            /\ mpc' = "done"
            /\ UNCHANGED <<workers, ctxDone, derived, results, pool, invoked>>
       ELSE /\ workers' = 2
            /\ ctxDone' = parentDone
            /\ derived' = TRUE
            /\ results' = <<Zero, Zero>>
            /\ pool' = SetToBag({Worker("run", [index |-> i, item |-> items[i]], Nil) : i \in 1..2})
            /\ invoked' = [i \in 1..2 |-> 1]
            /\ mpc' = "wait"
            /\ UNCHANGED ret
    /\ UNCHANGED <<parentDone, mode, items, n, jobs, jobsClosed, errCh, enqIdx,
                   firstPub, notTraverse>>

\* task.go:416-426,429-439: left(ctx) or right(ctx) returns.  A value is
\* stored in leftVal or rightVal and the goroutine ends; an error is to be
\* published.
ZipTaskReturn(s) ==
    /\ mode = "zip" /\ s.pc = "run"
    /\ CASE s.job.item.kind = "ok" ->
              /\ results' = [results EXCEPT ![s.job.index] = FnValue(s.job.item)]
              /\ pool' = Move(s, Worker("done", s.job, Nil))
         [] s.job.item.kind = "fail" ->
              /\ pool' = Move(s, Worker("publish", s.job, FnError(s.job.item)))
              /\ UNCHANGED results
         [] s.job.item.kind = "block" ->
              /\ ctxDone
              /\ pool' = Move(s, Worker("publish", s.job, Canceled))
              /\ UNCHANGED results
    /\ UNCHANGED <<cvars, items, n, workers, jobs, jobsClosed, errCh, mpc, enqIdx,
                   ret, firstPub, invoked, notTraverse>>

ZipSendOverwriteMutant(ch, e) == <<e>> \o ch

\* The non-blocking send on errCh, of capacity 2 (task.go:409,418-421).
zipSend(ch, e) == IF Len(ch) < 2 THEN Append(ch, e) ELSE ch

\* task.go:418-421,431-434: the goroutine publishes its error.
ZipPublish(s) ==
    /\ mode = "zip" /\ s.pc = "publish"
    /\ errCh' = zipSend(errCh, s.err)
    /\ firstPub' = IF firstPub = Nil THEN s.err ELSE firstPub
    /\ pool' = Move(s, Worker("cancel", s.job, s.err))
    /\ UNCHANGED <<cvars, items, n, workers, jobs, jobsClosed, results, mpc,
                   enqIdx, ret, invoked, notTraverse>>

ZipCancelCallerMutant(s) ==
    /\ mode = "zip" /\ s.pc = "cancel"
    /\ ctxDone' = TRUE
    /\ parentDone' = TRUE
    /\ pool' = Move(s, Worker("done", s.job, s.err))
    /\ UNCHANGED <<derived, mode, items, n, workers, jobs, jobsClosed,
                   errCh, results, mpc, enqIdx, ret, firstPub, invoked, notTraverse>>

\* task.go:422-423,435-436: cancel(); return; wg.Done().
ZipCancel(s) ==
    /\ mode = "zip" /\ s.pc = "cancel"
    /\ ctxDone' = TRUE
    /\ pool' = Move(s, Worker("done", s.job, s.err))
    /\ UNCHANGED <<parentDone, derived, mode, items, n, workers, jobs, jobsClosed,
                   errCh, results, mpc, enqIdx, ret, firstPub, invoked, notTraverse>>

ZipResultSwappedMutant(ch, done, res) ==
    IF pullError(ch) # Nil THEN ZipRet(Zero, Zero, pullError(ch))
    ELSE IF done THEN ZipRet(Zero, Zero, Canceled)
    ELSE ZipRet(res[2], res[1], Nil)

\* What ParZip returns once wg.Wait() is over (task.go:441-447).
zipResult(ch, done, res) ==
    IF pullError(ch) # Nil THEN ZipRet(Zero, Zero, pullError(ch))
    ELSE IF done THEN ZipRet(Zero, Zero, Canceled)
    ELSE ZipRet(res[1], res[2], Nil)

\* task.go:440-447,408: wg.Wait() returns, the outcome is decided, the
\* deferred cancel() runs.
ZipJoin ==
    /\ mode = "zip" /\ mpc = "wait"
    /\ Count("done") = 2
    /\ ret' = zipResult(errCh, ctxDone, results)
    /\ errCh' = IF errCh # <<>> THEN Tail(errCh) ELSE errCh
    /\ ctxDone' = TRUE
    /\ mpc' = "done"
    /\ UNCHANGED <<parentDone, derived, mode, items, n, workers, jobs, jobsClosed,
                   results, enqIdx, pool, firstPub, invoked, notTraverse>>

ZipStep ==
    \/ ZipCall
    \/ \E s \in BagToSet(pool) : ZipTaskReturn(s)
    \/ \E s \in BagToSet(pool) : ZipPublish(s)
    \/ \E s \in BagToSet(pool) : ZipCancel(s)
    \/ ZipJoin

NextZip == ZipStep \/ CallerCancel

SpecZip == InitZip /\ [][NextZip]_vars

\* C21: ParZip (and Both) returns the pair (left's value, right's value)
\* when both tasks succeed and the context is not canceled, in whatever
\* order they complete; if a task fails, the child context is canceled for
\* the other one and the call returns the error published first and the
\* zero pair.
C21_ParZip ==
    (mode = "zip") =>
        /\ \A s \in At("done") : s.err # Nil => ctxDone
        /\ (mpc = "done" /\ ~parentDone /\ \A i \in 1..2 : items[i].kind = "ok") =>
               ret = ZipRet(FnValue(items[1]), FnValue(items[2]), Nil)
        /\ (mpc = "done" /\ firstPub # Nil) => ret = ZipRet(Zero, Zero, firstPub)
        /\ (mpc = "done" /\ ret.err # Nil) => (ret.first = Zero /\ ret.second = Zero)

\* The right task failed first; the left one, waiting for its context, was
\* canceled and published second.
C21_Witness ==
    /\ mode = "zip" /\ mpc = "done" /\ ~parentDone
    /\ items[1].kind = "block" /\ items[2].kind = "fail"
    /\ ret = ZipRet(Zero, Zero, TaskErr(2))
    /\ errCh = <<Canceled>>

----------------------------------------------------------------------------
(***************************************************************************)
(* Race (task.go:330-393).  A task is "ok" (returns its value), "fail"     *)
(* (returns its error), "block" (waits for ctx.Done() and returns          *)
(* ctx.Err()) or "slow" (returns its value, or ctx.Err() once the context  *)
(* is done, whichever comes first).                                        *)
(***************************************************************************)
RaceKinds == {"ok", "fail", "block", "slow"}

errRaceNoTasks == <<"task: race requires at least one task", 0>>

\* The value and the error of task i.
TaskValue(i) == i * 10

Outcome(value, err) == [value |-> value, err |-> err]

Racer(pc, task, out) == [pc |-> pc, task |-> task, out |-> out]

MoveRacer(s, t) == (racers (-) SetToBag({s})) (+) SetToBag({t})

TaskSeqs == UNION {[1..k -> RaceKinds] : k \in 0..MaxTasks}

TraverseIdle ==
    /\ items = <<>>
    /\ n = 0
    /\ workers = 0
    /\ jobs = <<>>
    /\ jobsClosed = FALSE
    /\ errCh = <<>>
    /\ results = <<>>
    /\ enqIdx = 0
    /\ pool = EmptyBag
    /\ firstPub = Nil
    /\ invoked = <<>>

InitRace ==
    /\ mode = "race"
    /\ CtxInit
    /\ TimeoutIdle
    /\ TraverseIdle
    /\ RetryIdle
    /\ UnitIdle
    /\ tasks \in TaskSeqs
    /\ outcomes = <<>>
    /\ got = 0
    /\ firstErr = Nil
    /\ racers = EmptyBag
    /\ sent = <<>>
    /\ mpc = "call"
    /\ ret = Outcome(Zero, Nil)

RaceEntryCtxFirstMutant(total, done) ==
    IF done THEN "canceled" ELSE IF total = 0 THEN "notasks" ELSE "start"

\* The two early returns of Race (task.go:332-339).
raceEntry(total, done) ==
    IF total = 0 THEN "notasks" ELSE IF done THEN "canceled" ELSE "start"

\* task.go:331-343: the early returns, the child context, the channel and
\* the goroutines of startRaceWorkers.
RaceCall ==
    /\ mode = "race" /\ mpc = "call"
    /\ CASE raceEntry(Len(tasks), parentDone) = "notasks" ->
              /\ ret' = Outcome(Zero, errRaceNoTasks)
              /\ mpc' = "done"
              /\ UNCHANGED <<derived, ctxDone, racers>>
         [] raceEntry(Len(tasks), parentDone) = "canceled" ->
              /\ ret' = Outcome(Zero, Canceled)
              /\ mpc' = "done"
              /\ UNCHANGED <<derived, ctxDone, racers>>
         [] raceEntry(Len(tasks), parentDone) = "start" ->
              /\ derived' = TRUE
              /\ ctxDone' = parentDone
              /\ racers' = SetToBag({Racer("run", i, Outcome(Zero, Nil)) : i \in DOMAIN tasks})
              /\ mpc' = "await"
              /\ UNCHANGED ret
    /\ UNCHANGED <<parentDone, mode, tasks, outcomes, got, firstErr, sent, notRace>>

\* task.go:356: the task of a racer returns.
RacerReturn(s) ==
    /\ mode = "race" /\ s.pc = "run"
    /\ \/ /\ tasks[s.task] \in {"ok", "slow"}
          /\ racers' = MoveRacer(s, Racer("send", s.task, Outcome(TaskValue(s.task), Nil)))
       \/ /\ tasks[s.task] = "fail"
          /\ racers' = MoveRacer(s, Racer("send", s.task, Outcome(Zero, TaskErr(s.task))))
       \/ /\ tasks[s.task] \in {"block", "slow"}
          /\ ctxDone
          /\ racers' = MoveRacer(s, Racer("send", s.task, Outcome(Zero, Canceled)))
    /\ UNCHANGED <<cvars, mpc, ret, tasks, outcomes, got, firstErr, sent, notRace>>

\* The non-blocking send on the outcomes channel (task.go:357-360).
offer(ch, cap, o) == IF Len(ch) < cap THEN Append(ch, o) ELSE ch

RacerSendTwiceMutant(s) ==
    /\ mode = "race" /\ s.pc = "send"
    /\ outcomes' = offer(offer(outcomes, Len(tasks), s.out), Len(tasks), s.out)
    /\ sent' = Append(sent, s.out)
    /\ racers' = MoveRacer(s, Racer("done", s.task, s.out))
    /\ UNCHANGED <<cvars, mpc, ret, tasks, got, firstErr, notRace>>

\* task.go:357-360: the racer publishes its outcome and ends.
RacerSend(s) ==
    /\ mode = "race" /\ s.pc = "send"
    /\ outcomes' = offer(outcomes, Len(tasks), s.out)
    /\ sent' = Append(sent, s.out)
    /\ racers' = MoveRacer(s, Racer("done", s.task, s.out))
    /\ UNCHANGED <<cvars, mpc, ret, tasks, got, firstErr, notRace>>

\* task.go:375-378: the select of awaitRaceResult takes the ctx.Done case;
\* Race's deferred cancel runs.
AwaitDone ==
    /\ mode = "race" /\ mpc = "await"
    /\ got < Len(tasks)
    /\ ctxDone
    /\ ret' = Outcome(Zero, Canceled)
    /\ mpc' = "done"
    /\ UNCHANGED <<cvars, tasks, outcomes, got, firstErr, racers, sent, notRace>>

KeepLastMutant(first, err) == err

\* task.go:384-386: firstErr keeps the first error received.
keepFirst(first, err) == IF first = Nil THEN err ELSE first

ReceiveLastMutant(ch) == ch[Len(ch)]

\* The outcome a receive takes from the channel (task.go:379).
receive(ch) == Head(ch)

\* task.go:379-386: the select takes an outcome.  A success cancels the
\* child context and is returned; a failure is counted.
AwaitRecv ==
    /\ mode = "race" /\ mpc = "await"
    /\ got < Len(tasks)
    /\ outcomes # <<>>
    /\ LET outcome == receive(outcomes) IN
       IF outcome.err = Nil
       THEN /\ ctxDone' = TRUE
            /\ ret' = Outcome(outcome.value, Nil)
            /\ mpc' = "done"
            /\ UNCHANGED <<got, firstErr>>
       ELSE /\ firstErr' = keepFirst(firstErr, outcome.err)
            /\ got' = got + 1
            /\ UNCHANGED <<ctxDone, ret, mpc>>
    /\ outcomes' = Tail(outcomes)
    /\ UNCHANGED <<parentDone, derived, mode, tasks, racers, sent, notRace>>

\* task.go:389-392,341: every task has reported a failure; the deferred
\* cancel runs.
AwaitEnd ==
    /\ mode = "race" /\ mpc = "await"
    /\ got = Len(tasks)
    /\ ret' = IF firstErr # Nil THEN Outcome(Zero, firstErr)
              ELSE Outcome(Zero, IF ctxDone THEN Canceled ELSE Nil)
    /\ ctxDone' = TRUE
    /\ mpc' = "done"
    /\ UNCHANGED <<parentDone, derived, mode, tasks, outcomes, got, firstErr,
                   racers, sent, notRace>>

RaceStep ==
    \/ RaceCall
    \/ \E s \in BagToSet(racers) : RacerReturn(s)
    \/ \E s \in BagToSet(racers) : RacerSend(s)
    \/ AwaitDone
    \/ AwaitRecv
    \/ AwaitEnd

NextRace == RaceStep \/ CallerCancel

SpecRace == InitRace /\ [][NextRace]_vars

\* Every goroutine of Race that can take a step eventually takes one.
FairRace == SpecRace /\ WF_vars(RaceStep)

----------------------------------------------------------------------------
(***************************************************************************)
(* Properties of Race.                                                     *)
(***************************************************************************)
RECURSIVE FirstSuccess(_)
\* The first successful outcome of a sequence of outcomes.
FirstSuccess(os) ==
    IF os = <<>> THEN Outcome(Zero, Nil)
    ELSE IF Head(os).err = Nil THEN Head(os)
    ELSE FirstSuccess(Tail(os))

AllTasksFail == Len(tasks) >= 1 /\ \A i \in DOMAIN tasks : tasks[i] = "fail"

\* C6: on a live context, with a task that succeeds, Race returns the value
\* of the task whose success was reported first, and the child context is
\* canceled by the time Race has returned.
C6_FirstSuccessWins ==
    (mode = "race" /\ mpc = "done" /\ ~parentDone
        /\ \E i \in DOMAIN tasks : tasks[i] = "ok") =>
        /\ ret.err = Nil
        /\ ret.value = FirstSuccess(sent).value
        /\ ctxDone

\* Race returned the success of a task other than the first while another
\* task was still waiting for its context, which is now canceled.
C6_Witness ==
    /\ mode = "race" /\ mpc = "done" /\ ~parentDone
    /\ ret.err = Nil /\ ret.value = TaskValue(2)
    /\ \E s \in BagToSet(racers) : s.pc = "run" /\ tasks[s.task] = "block"
    /\ ctxDone

\* C7: when every task fails and the caller never cancels, Race returns
\* only after all tasks have reported, with the error reported first.
C7_FirstErrorAfterAll ==
    (mode = "race" /\ mpc = "done" /\ ~parentDone /\ AllTasksFail) =>
        /\ Len(sent) = Len(tasks)
        /\ ret.err = sent[1].err

\* Three tasks failed, task 2 reported first and its error is returned.
C7_Witness ==
    /\ mode = "race" /\ mpc = "done" /\ ~parentDone /\ AllTasksFail
    /\ Len(tasks) >= 3 /\ Len(sent) = Len(tasks)
    /\ sent[1].err = TaskErr(2) /\ ret.err = TaskErr(2)
    /\ sent[Len(sent)].err # ret.err

\* C8: when all tasks fail, Race returns the last error observed, as the
\* doc comment of Race says.
C8_LastErrorReturned ==
    (mode = "race" /\ mpc = "done" /\ ~parentDone /\ AllTasksFail) =>
        ret.err = sent[Len(sent)].err

\* C9: Race with no tasks returns the dedicated error at once: it derives
\* no child context, starts no goroutine and never waits.
C9_NoTasks ==
    (mode = "race" /\ Len(tasks) = 0) =>
        /\ ~derived
        /\ racers = EmptyBag
        /\ mpc \in {"call", "done"}
        /\ mpc = "done" => ret = Outcome(Zero, errRaceNoTasks)

\* Race with no tasks has returned its error, here on a canceled context.
C9_Witness ==
    /\ mode = "race" /\ Len(tasks) = 0 /\ mpc = "done" /\ parentDone
    /\ ret.err = errRaceNoTasks

\* The caller has canceled the context of a running Race and no task has
\* returned yet.
CanceledBeforeAnyFinish ==
    /\ mode = "race" /\ mpc \in {"call", "await"}
    /\ Len(tasks) > 0
    /\ parentDone
    /\ \A s \in BagToSet(racers) : s.pc = "run"

\* C26: when the caller cancels the context of Race before any task has
\* finished, Race returns the context's cancellation error, whatever the
\* tasks report afterwards.
C26_CancelTakesPrecedence ==
    [](CanceledBeforeAnyFinish => [](mpc = "done" => ret = Outcome(Zero, Canceled)))

\* The racers that have published and ended.
RacersDone == {s \in BagToSet(racers) : s.pc = "done"}

\* C27: a racer whose task has returned never blocks: the send case of its
\* select is ready, since the channel holds fewer outcomes than its
\* capacity, also after Race has returned; each racer publishes once.
C27_RacersNeverBlock ==
    mode = "race" =>
        /\ \A s \in BagToSet(racers) :
               s.pc = "send" => (Len(outcomes) < Len(tasks) /\ ENABLED RacerSend(s))
        /\ Len(outcomes) <= Len(tasks)
        /\ Len(sent) = BagCardinality([s \in RacersDone |-> racers[s]])

\* Race has returned a success and a task that waited for the cancellation
\* has published its outcome afterwards and ended.
C27_Witness ==
    /\ mode = "race" /\ mpc = "done" /\ ~parentDone /\ ret.err = Nil
    /\ Len(tasks) = 3
    /\ \A s \in BagToSet(racers) : s.pc = "done"
    /\ \E k \in 1..Len(outcomes) : outcomes[k] = Outcome(Zero, Canceled)
    /\ Len(sent) = 3

----------------------------------------------------------------------------
(***************************************************************************)
(* Retry (task.go:248-286) and timeutil.Sleep (unnamed/part_003:12-24).    *)
(* The wrapped task fails on its first Len(script) invocations, with an    *)
(* error of the class the script gives, and succeeds afterwards.           *)
(***************************************************************************)
ErrClasses == {"retryable", "fatal"}

RetryValue == 7

\* The error of invocation j of the wrapped task.
ScriptErr(j) == <<script[j], j>>

\* What invocation j of the wrapped task returns.
taskOutcome(j) ==
    IF j <= Len(script) THEN Outcome(Zero, ScriptErr(j)) ELSE Outcome(RetryValue, Nil)

\* The ShouldRetry predicate of the caller, when one is configured.
ShouldRetry(err) == err[1] # "fatal"

\* The Backoff function of the caller, when one is configured.
Backoff(kind, att, err) == IF kind = "neg" THEN 0 - att ELSE att

Scripts == UNION {[1..k -> ErrClasses] : k \in 0..MaxAttempts}

Configs ==
    [Attempts : -1..MaxAttempts, Delay : {-1, 0, 1}, Backoff : {"nil", "neg", "pos"},
     ShouldRetry : BOOLEAN]

InitRetry ==
    /\ mode = "retry"
    /\ CtxInit
    /\ TimeoutIdle
    /\ TraverseIdle
    /\ RaceIdle
    /\ UnitIdle
    /\ cfg \in Configs
    /\ script \in Scripts
    /\ attempts = 0
    /\ attempt = 0
    /\ lastErr = Nil
    /\ delay = 0
    /\ calls = 0
    /\ waits = 0
    /\ mpc = "call"
    /\ ret = Outcome(Zero, Nil)

RetryAttemptsRawMutant(a) == a

\* task.go:250-253: a non-positive Attempts is one attempt.
retryAttempts(a) == IF a <= 0 THEN 1 ELSE a

\* task.go:250-256: the attempts are fixed and the loop is entered.
RetryCall ==
    /\ mode = "retry" /\ mpc = "call"
    /\ attempts' = retryAttempts(cfg.Attempts)
    /\ attempt' = 1
    /\ mpc' = "attempt"
    /\ UNCHANGED <<parentDone, mode, ret, cfg, script, lastErr, delay, calls, waits,
                   notRetry>>

\* task.go:271-274: the delay that the configuration asks for.
configuredDelay(c, att, err) ==
    IF c.Backoff # "nil" THEN Backoff(c.Backoff, att, err) ELSE c.Delay

RetryDelayNoClampMutant(c, att, err) == configuredDelay(c, att, err)

\* task.go:271-277: the delay before the next attempt.
retryDelay(c, att, err) ==
    LET d == configuredDelay(c, att, err)
    IN IF d < 0 THEN 0 ELSE d

LastAttemptEarlyMutant(att, total) == att + 1 >= total

\* task.go:268: this was the last attempt.
lastAttempt(att, total) == att = total

NotRetryableNeverMutant(c, err) == FALSE

\* task.go:265: the error is not to be retried.
notRetryable(c, err) == c.ShouldRetry /\ ~ShouldRetry(err)

\* task.go:257-261: the top of a turn of the loop: the context is tested
\* and, if it is live, the task is invoked.
RetryCheck ==
    /\ mode = "retry" /\ mpc = "attempt"
    /\ IF parentDone
       THEN /\ ret' = Outcome(Zero, Canceled)
            /\ mpc' = "done"
            /\ UNCHANGED calls
       ELSE /\ calls' = calls + 1
            /\ mpc' = "run"
            /\ UNCHANGED ret
    /\ UNCHANGED <<parentDone, mode, cfg, script, attempts, attempt, lastErr, delay,
                   waits, notRetry>>

\* task.go:261-277: the invocation returns, whatever became of the
\* context meanwhile, and Retry decides to return or to wait.
RetryAttempt ==
    /\ mode = "retry" /\ mpc = "run"
    /\ LET out == taskOutcome(calls) IN
       /\ lastErr' = out.err
       /\ IF out.err = Nil
          THEN /\ ret' = Outcome(out.value, Nil)
               /\ mpc' = "done"
               /\ UNCHANGED delay
          ELSE IF notRetryable(cfg, out.err) \/ lastAttempt(attempt, attempts)
          THEN /\ ret' = Outcome(Zero, out.err)
               /\ mpc' = "done"
               /\ UNCHANGED delay
          ELSE /\ delay' = retryDelay(cfg, attempt, out.err)
               /\ mpc' = "sleep"
               /\ UNCHANGED ret
    /\ UNCHANGED <<parentDone, mode, cfg, script, attempts, attempt, calls, waits,
                   notRetry>>

\* part_003:13-15,21-22; task.go:256: Sleep returns true, at once for a
\* delay that is not positive and when the timer fires otherwise; the
\* loop goes to the next attempt.
RetrySleepElapsed ==
    /\ mode = "retry" /\ mpc = "sleep"
    /\ waits' = waits + 1
    /\ attempt' = attempt + 1
    /\ mpc' = "attempt"
    /\ UNCHANGED <<parentDone, mode, ret, cfg, script, attempts, lastErr, delay, calls,
                   notRetry>>

RetrySleepLastErrMutant ==
    /\ mode = "retry" /\ mpc = "sleep"
    /\ delay > 0
    /\ parentDone
    /\ ret' = Outcome(Zero, lastErr)
    /\ mpc' = "done"
    /\ UNCHANGED <<parentDone, mode, cfg, script, attempts, attempt, lastErr, delay,
                   calls, waits, notRetry>>

\* part_003:19-20; task.go:278-281: the context is done before the timer
\* fires; Retry returns ctx.Err().
RetrySleepCanceled ==
    /\ mode = "retry" /\ mpc = "sleep"
    /\ delay > 0
    /\ parentDone
    /\ ret' = Outcome(Zero, Canceled)
    /\ mpc' = "done"
    /\ UNCHANGED <<parentDone, mode, cfg, script, attempts, attempt, lastErr, delay,
                   calls, waits, notRetry>>

RetryStep ==
    \/ RetryCall
    \/ RetryCheck
    \/ RetryAttempt
    \/ RetrySleepElapsed
    \/ RetrySleepCanceled

NextRetry == RetryStep \/ CallerCancel

SpecRetry == InitRetry /\ [][NextRetry]_vars

----------------------------------------------------------------------------
(***************************************************************************)
(* Properties of Retry.                                                    *)
(***************************************************************************)
\* C10: with Attempts = N >= 1, no ShouldRetry and a context never
\* canceled, a task that fails k-1 times and succeeds on invocation k <= N
\* makes Retry return that value with a nil error after exactly k
\* invocations.
C10_SucceedsAtK ==
    (mode = "retry" /\ mpc = "done" /\ ~parentDone /\ ~cfg.ShouldRetry
        /\ cfg.Attempts >= 1 /\ Len(script) + 1 <= cfg.Attempts) =>
        /\ ret = Outcome(RetryValue, Nil)
        /\ calls = Len(script) + 1

\* Two failures, then the success on the third of more than three attempts.
C10_Witness ==
    /\ mode = "retry" /\ mpc = "done" /\ ~parentDone /\ ~cfg.ShouldRetry
    /\ Len(script) = 2 /\ cfg.Attempts > 3 /\ cfg.Delay = 1 /\ cfg.Backoff = "nil"
    /\ ret = Outcome(RetryValue, Nil) /\ calls = 3 /\ waits = 2

\* max(1, Attempts).
MaxOneAttempts == IF cfg.Attempts < 1 THEN 1 ELSE cfg.Attempts

\* Each of the first MaxOneAttempts invocations fails with an error that
\* is retried.
AllFailRetryable ==
    /\ Len(script) >= MaxOneAttempts
    /\ cfg.ShouldRetry => \A j \in 1..MaxOneAttempts : script[j] = "retryable"

\* C11: Retry invokes the task at most max(1, Attempts) times; when every
\* invocation fails with a retryable error on a live context it invokes
\* it exactly max(1, Attempts) times, waits max(1, Attempts) - 1 times,
\* none after the final attempt, and returns the error of the last
\* invocation.
C11_AttemptsBound ==
    mode = "retry" =>
        /\ calls <= MaxOneAttempts
        /\ (mpc = "done" /\ ~parentDone /\ AllFailRetryable) =>
               /\ calls = MaxOneAttempts
               /\ waits = MaxOneAttempts - 1
               /\ ret = Outcome(Zero, ScriptErr(MaxOneAttempts))

\* Attempts = 0 and a task that always fails: one invocation, no wait.
C11_Witness ==
    /\ mode = "retry" /\ mpc = "done" /\ ~parentDone
    /\ cfg.Attempts = 0 /\ Len(script) >= 1
    /\ calls = 1 /\ waits = 0 /\ ret = Outcome(Zero, ScriptErr(1))

\* C12: a negative delay, from Delay or from Backoff, is a zero delay: the
\* wait ends at once with no error because of it, also on a canceled
\* context, and the next attempt is made.
C12_NegativeDelayIsZero ==
    (mode = "retry" /\ mpc = "sleep" /\ configuredDelay(cfg, attempt, lastErr) < 0) =>
        /\ delay = 0
        /\ ENABLED RetrySleepElapsed
        /\ ~ENABLED RetrySleepCanceled

\* Delay = -1 as in TestRetryNegativeDelay: the task failed once, the
\* wait is over and the second attempt succeeded.
C12_Witness ==
    /\ mode = "retry" /\ mpc = "done" /\ ~parentDone
    /\ cfg.Delay = -1 /\ cfg.Backoff = "nil" /\ cfg.Attempts = 3
    /\ Len(script) = 1 /\ waits = 1 /\ calls = 2
    /\ ret = Outcome(RetryValue, Nil)

\* C13: when ShouldRetry is configured and returns false for the error of
\* an attempt, Retry returns that error with no wait and no further
\* invocation, even if attempts remain.
C13_ShouldRetryStops ==
    (mode = "retry" /\ cfg.ShouldRetry /\ lastErr # Nil /\ ~ShouldRetry(lastErr)) =>
        /\ mpc = "done"
        /\ ret = Outcome(Zero, lastErr)
        /\ lastErr = ScriptErr(calls)
        /\ waits = calls - 1
        /\ \A j \in 1..(calls - 1) : script[j] = "retryable"

\* A fatal error on the second of four attempts.
C13_Witness ==
    /\ mode = "retry" /\ mpc = "done" /\ cfg.ShouldRetry /\ cfg.Attempts = 4
    /\ Len(script) >= 3 /\ script[1] = "retryable" /\ script[2] = "fatal"
    /\ calls = 2 /\ waits = 1 /\ ret = Outcome(Zero, ScriptErr(2))

\* C14: the context is tested before every attempt and during every
\* wait: when it is canceled at the start of an attempt or while Retry
\* waits between attempts, the task is not invoked again and Retry returns
\* the context's error, not the error of the failed attempt.
C14_CancelPreempts ==
    [][(mode = "retry" /\ parentDone /\ mpc \in {"attempt", "sleep"}) =>
          /\ calls' = calls
          /\ mpc' \in {"attempt", "sleep", "done"}
          /\ mpc' = "done" => ret' = Outcome(Zero, Canceled)]_vars

\* The context was canceled during the wait after the first failure.
C14_Witness ==
    /\ mode = "retry" /\ mpc = "done" /\ parentDone
    /\ delay > 0 /\ calls = 1 /\ waits = 0 /\ lastErr = ScriptErr(1)
    /\ ret = Outcome(Zero, Canceled)

----------------------------------------------------------------------------
(***************************************************************************)
(* The constructors and the sequential combinators (task.go:44-229,        *)
(* 293-311, 483-509, 617-675).  They run on the calling goroutine, and     *)
(* what an invocation does between two tests of its context is decided by  *)
(* what its tests saw before.  Run(t, st) runs task expression t from      *)
(* state st over the observations st.obs: test number k of the context     *)
(* sees st.obs[k].  It gives the value, the error and the state the run    *)
(* ends in, and in st.marks where the run stood at each test.  The         *)
(* invocation itself advances one test at a time (UnitTest and the wait of *)
(* timeutil.Sleep below), each test seeing the context as it is then, with *)
(* the caller's cancellation and the deadline of a Timeout as steps of     *)
(* their own in between.  A panic is an outcome with panic = TRUE that     *)
(* every caller but Attempt passes on.                                     *)
(***************************************************************************)
\* What one test of the context saw: the caller's context canceled, the
\* deadline of the enclosing Timeout expired; for the select of
\* timeutil.Sleep, fired says that the timer's case was taken.
Seen(canceled, isExpired, fired) ==
    [canceled |-> canceled, expired |-> isExpired, fired |-> fired]

\* The state of a run that starts: nothing seen of the context, no user
\* function run, no test made, under no Timeout.
St(o) ==
    [canceled |-> FALSE, expired |-> FALSE, fired |-> FALSE, since |-> -1,
     checks |-> 0, log |-> <<>>, obs |-> o, marks |-> <<>>]

\* One more test of the context, of kind "err" (ctx.Err()) or "wait" (the
\* select of timeutil.Sleep on ctx.Done() and a timer of duration d): the
\* run sees the next observation (past the last one the context is as it
\* was, and a timer fires) and marks where it stands.
Observe(st, kind, d) ==
    LET k == st.checks + 1
        o == IF k <= Len(st.obs) THEN st.obs[k] ELSE Seen(st.canceled, st.expired, TRUE)
    IN [st EXCEPT !.checks = k,
                  !.canceled = @ \/ o.canceled,
                  !.expired = st.since >= 0 /\ o.expired,
                  !.fired = o.fired,
                  !.marks = Append(@, [kind |-> kind, timer |-> d, log |-> Len(st.log),
                                       since |-> st.since, canceled |-> st.canceled])]

\* ctx.Err().
ctxErr(st) == Observe(st, "err", 0)

\* The context that st describes is done.
CtxDone(st) == st.canceled \/ st.expired

\* Its error then: the deadline's if the deadline expired first.
CtxError(st) == IF st.expired THEN DeadlineExceeded ELSE Canceled

R(val, err, st) == [val |-> val, err |-> err, st |-> st, panic |-> FALSE]

Panicked(tag, st) == [val |-> Zero, err |-> <<"panic", tag>>, st |-> st, panic |-> TRUE]

\* The state after user function f ran.
Ran(st, f) == [st EXCEPT !.log = Append(@, f)]

\* Body of x, with x evaluated once: the local variables of the code,
\* assigned once and read many times.
Bind(x, Body(_)) == CHOOSE y \in {Body(v) : v \in {x}} : TRUE

errNilError == <<"task: nil error", 0>>

errOptionNone == <<"task: option is none", 0>>

errPanicRecovered(tag) == <<"task: panic recovered", tag>>

JoinUseOnlyMutant(a, b) == a

\* errors.Join(a, b).
Join(a, b) == <<"join", a, b>>

SleepNoShortcutMutant(st, d) ==
    Bind(Observe(st, "wait", d), LAMBDA c : [ok |-> c.fired, st |-> c])

\* timeutil.Sleep (part_003:12-24): ok when the select took the timer's
\* case; no select for d <= 0.
Sleep(st, d) ==
    IF d <= 0 THEN [ok |-> TRUE, st |-> st]
    ELSE Bind(Observe(st, "wait", d), LAMBDA c : [ok |-> c.fired, st |-> c])

RECURSIVE ErrorsIs(_, _)
\* errors.Is(err, target): err is target or joins an error that is.
ErrorsIs(err, target) ==
    \/ err = target
    \/ /\ err[1] = "join"
       /\ (ErrorsIs(err[2], target) \/ ErrorsIs(err[3], target))

\* What a raw function does: it returns a value, an error, a value and an
\* error, it cancels the context it was given, or it panics.
RawOps == {"RawOk", "RawFail", "RawFailValue", "RawCancel", "RawPanic"}

RECURSIVE Run(_, _)
RECURSIVE SequenceLoop(_, _, _)
RECURSIVE SequenceLoopNoCheckMutant(_, _, _)
RECURSIVE RetryLoop(_, _, _, _)

\* A raw function used as a Task (task.go:36): it does not look at ctx.
\* RawCancel cancels the context it was given, as the first task of
\* TestSequenceRespectsContext does; RawPanic panics.
Raw(t, st) ==
    CASE t.op = "RawOk" -> R(t.arg, Nil, Ran(st, <<"fn", t.arg>>))
      [] t.op = "RawFail" -> R(Zero, TaskErr(t.arg), Ran(st, <<"fn", t.arg>>))
      [] t.op = "RawFailValue" -> R(t.arg, TaskErr(t.arg), Ran(st, <<"fn", t.arg>>))
      [] t.op = "RawCancel" -> R(t.arg, Nil, [Ran(st, <<"fn", t.arg>>) EXCEPT !.canceled = TRUE])
      [] t.op = "RawPanic" -> Panicked(t.arg, Ran(st, <<"fn", t.arg>>))

FromNoCheckMutant(t, st) == Run(t.kids[1], st)

\* task.go:44-52.
From(t, st) ==
    Bind(ctxErr(st), LAMBDA c :
        IF CtxDone(c) THEN R(Zero, CtxError(c), c) ELSE Run(t.kids[1], c))

\* task.go:60-68.
Pure(t, st) ==
    Bind(ctxErr(st), LAMBDA c :
        IF CtxDone(c) THEN R(Zero, CtxError(c), c) ELSE R(t.arg, Nil, c))

\* task.go:77-89: arg = 0 is Fail(nil).
Fail(t, st) ==
    LET failureErr == IF t.arg = 0 THEN errNilError ELSE TaskErr(t.arg) IN
    Bind(ctxErr(st), LAMBDA c :
        IF CtxDone(c) THEN R(Zero, CtxError(c), c) ELSE R(Zero, failureErr, c))

\* The function given to Map: x -> x + arg, the identity for arg = 0.
MapFn(arg, x) == x + arg

\* task.go:96-109.
Map(t, st) ==
    Bind(Run(t.kids[1], st), LAMBDA r :
        IF r.panic THEN r
        ELSE IF r.err # Nil THEN R(Zero, r.err, r.st)
        ELSE Bind(ctxErr(r.st), LAMBDA c :
                 IF CtxDone(c) THEN R(Zero, CtxError(c), c)
                 ELSE R(MapFn(t.arg, r.val), Nil, Ran(c, <<"Map", t.arg>>))))

RECURSIVE Apply(_, _)
\* The task that the function k, given to FlatMap or to Bracket as use,
\* returns for x: PureOf is x -> Pure(x + arg), FlatMapOf is
\* x -> FlatMap(f(x), g) for f = kids[1] and g = kids[2], and any other
\* expression is the function that returns that task whatever x is.
Apply(k, x) ==
    CASE k.op = "PureOf" -> T("Pure", x + k.arg, <<>>)
      [] k.op = "FlatMapOf" -> T("FlatMap", 0, <<Apply(k.kids[1], x), k.kids[2]>>)
      [] OTHER -> k

FlatMapEntryCheckMutant(t, st) ==
    Bind(ctxErr(st), LAMBDA c0 :
        IF CtxDone(c0) THEN R(Zero, CtxError(c0), c0)
        ELSE Bind(Run(t.kids[1], c0), LAMBDA r :
                 IF r.panic THEN r
                 ELSE IF r.err # Nil THEN R(Zero, r.err, r.st)
                 ELSE Bind(ctxErr(r.st), LAMBDA c :
                          IF CtxDone(c) THEN R(Zero, CtxError(c), c)
                          ELSE Run(Apply(t.kids[2], r.val), Ran(c, <<"FlatMap", r.val>>)))))

\* task.go:118-131: fn is kids[2].
FlatMap(t, st) ==
    Bind(Run(t.kids[1], st), LAMBDA r :
        IF r.panic THEN r
        ELSE IF r.err # Nil THEN R(Zero, r.err, r.st)
        ELSE Bind(ctxErr(r.st), LAMBDA c :
                 IF CtxDone(c) THEN R(Zero, CtxError(c), c)
                 ELSE Run(Apply(t.kids[2], r.val), Ran(c, <<"FlatMap", r.val>>))))

\* task.go:140-148.
Tap(t, st) ==
    Bind(Run(t.kids[1], st), LAMBDA r :
        IF r.panic THEN r
        ELSE IF r.err = Nil THEN R(r.val, r.err, Ran(r.st, <<"Tap", r.val>>))
        ELSE r)

\* task.go:157-165.
TapErr(t, st) ==
    Bind(Run(t.kids[1], st), LAMBDA r :
        IF r.panic THEN r
        ELSE IF r.err # Nil THEN R(r.val, r.err, Ran(r.st, <<"TapErr", 0>>))
        ELSE r)

\* task.go:172-178.
Ensure(t, st) ==
    Bind(Run(t.kids[1], st), LAMBDA r :
        IF r.panic THEN r
        ELSE R(r.val, r.err, Ran(r.st, <<"Ensure", 0>>)))

\* task.go:199-211: what Bracket returns for what the task of use gave
\* and the error of release; st2 is the state after release ran.
bracketResult(u, releaseErr, st2) ==
    IF releaseErr # Nil
    THEN IF u.err # Nil THEN R(u.val, Join(u.err, releaseErr), st2)
         ELSE R(Zero, releaseErr, st2)
    ELSE IF u.err # Nil THEN R(u.val, u.err, st2)
    ELSE R(u.val, Nil, st2)

\* task.go:188-213: kids = <<acquire, the task use returns>>; release
\* returns the error TaskErr(arg), nil for arg = 0.  A panic of use leaves
\* Bracket before release is called.
Bracket(t, st) ==
    Bind(Run(t.kids[1], st), LAMBDA a :
        IF a.panic THEN a
        ELSE IF a.err # Nil THEN R(Zero, a.err, a.st)
        ELSE Bind(Run(Apply(t.kids[2], a.val), Ran(a.st, <<"use", a.val>>)), LAMBDA u :
                 IF u.panic THEN u
                 ELSE bracketResult(u, IF t.arg = 0 THEN Nil ELSE TaskErr(t.arg),
                                    Ran(u.st, <<"release", a.val>>))))

\* task.go:220-229: arg is d.  For d <= 0 the task itself; for d > 0 the
\* task runs under a deadline (the one of an enclosing Timeout of the same
\* d, if any, which comes first) and the deferred cancel ends the deadline
\* when the task returns or panics.
Timeout(t, st) ==
    IF t.arg <= 0 \/ st.since >= 0 THEN Run(t.kids[1], st)
    ELSE Bind(Run(t.kids[1], [st EXCEPT !.since = st.checks]), LAMBDA r :
             [r EXCEPT !.st.since = -1, !.st.expired = FALSE])

\* task.go:248-286 with RetryConfig{Attempts: arg}.
RetryLoop(t, att, total, st) ==
    Bind(ctxErr(st), LAMBDA c :
        IF CtxDone(c) THEN R(Zero, CtxError(c), c)
        ELSE Bind(Run(t.kids[1], c), LAMBDA r :
                 IF r.panic THEN r
                 ELSE IF r.err = Nil THEN R(r.val, Nil, r.st)
                 ELSE IF att = total THEN R(Zero, r.err, r.st)
                 ELSE RetryLoop(t, att + 1, total, r.st)))

\* A slice holding vals, and the nil slice.
Slice(vals) == [vals |-> vals, nilvals |-> FALSE]

NilSlice == [vals |-> <<>>, nilvals |-> TRUE]

SequenceLoopNoCheckMutant(ts, acc, st) ==
    IF ts = <<>> THEN R(Slice(acc), Nil, st)
    ELSE Bind(Run(Head(ts), st), LAMBDA r :
             IF r.panic THEN r
             ELSE IF r.err # Nil THEN R(NilSlice, r.err, r.st)
             ELSE SequenceLoopNoCheckMutant(Tail(ts), Append(acc, r.val), r.st))

\* task.go:299-310: the loop of Sequence over the tasks left.
SequenceLoop(ts, acc, st) ==
    IF ts = <<>> THEN R(Slice(acc), Nil, st)
    ELSE Bind(ctxErr(st), LAMBDA c :
             IF CtxDone(c) THEN R(NilSlice, CtxError(c), c)
             ELSE Bind(Run(Head(ts), c), LAMBDA r :
                      IF r.panic THEN r
                      ELSE IF r.err # Nil THEN R(NilSlice, r.err, r.st)
                      ELSE SequenceLoop(Tail(ts), Append(acc, r.val), r.st)))

\* task.go:293-311.
Sequence(t, st) ==
    Bind(ctxErr(st), LAMBDA c :
        IF CtxDone(c) THEN R(NilSlice, CtxError(c), c) ELSE SequenceLoop(t.kids, <<>>, c))

\* task.go:330-335: Race with no tasks.
RaceNone(t, st) == R(Zero, errRaceNoTasks, st)

\* task.go:483-491: arg is d.
Delay(t, st) ==
    Bind(Sleep(st, t.arg), LAMBDA slept :
        IF ~slept.ok
        THEN Bind(ctxErr(slept.st), LAMBDA c :
                 R(Zero, IF CtxDone(c) THEN CtxError(c) ELSE Nil, c))
        ELSE R(Zero, Nil, slept.st))

AttemptNoRecoverMutant(t, st) == Run(t.kids[1], st)

\* task.go:498-509.
Attempt(t, st) ==
    Bind(Run(t.kids[1], st), LAMBDA r :
        IF r.panic THEN R(Zero, errPanicRecovered(r.err[2]), r.st) ELSE r)

\* task.go:527-531: TraverseParN over an empty slice.
TraverseEmpty(t, st) == R(<<>>, Nil, st)

\* task.go:617-625: arg > 0 is result.Ok(arg), arg < 0 is
\* result.Err(TaskErr(-arg)).
FromResult(t, st) ==
    Bind(ctxErr(st), LAMBDA c :
        IF CtxDone(c) THEN R(Zero, CtxError(c), c)
        ELSE IF t.arg > 0 THEN R(t.arg, Nil, c)
        ELSE R(Zero, TaskErr(0 - t.arg), c))

\* task.go:633-652: arg > 0 is option.Some(arg); arg = 0 is None with a
\* nil errFactory, arg = -1 None with an errFactory that returns an error,
\* arg = -2 None with an errFactory that returns nil.
FromOption(t, st) ==
    Bind(ctxErr(st), LAMBDA c :
        IF CtxDone(c) THEN R(Zero, CtxError(c), c)
        ELSE IF t.arg > 0 THEN R(t.arg, Nil, c)
        ELSE IF t.arg = 0 THEN R(Zero, errOptionNone, c)
        ELSE IF t.arg = -1 THEN R(Zero, TaskErr(1), Ran(c, <<"errFactory", 0>>))
        ELSE R(Zero, errOptionNone, Ran(c, <<"errFactory", 0>>)))

ToResultTaskWrapAllMutant(t, st) ==
    Bind(Run(t.kids[1], st), LAMBDA r :
        IF r.panic THEN r
        ELSE IF r.err # Nil THEN R(Outcome(Zero, r.err), Nil, ctxErr(r.st))
        ELSE R(Outcome(r.val, Nil), Nil, r.st))

\* task.go:664-675: the value is a result.Result, [value, err].
ToResultTask(t, st) ==
    Bind(Run(t.kids[1], st), LAMBDA r :
        IF r.panic THEN r
        ELSE IF r.err # Nil
        THEN Bind(ctxErr(r.st), LAMBDA c :
                 IF CtxDone(c) /\ ErrorsIs(r.err, CtxError(c))
                 THEN R(Outcome(Zero, Nil), r.err, c)
                 ELSE R(Outcome(Zero, r.err), Nil, c))
        ELSE R(Outcome(r.val, Nil), Nil, r.st))

\* Invoking the task that expression t built.
Run(t, st) ==
    CASE t.op \in RawOps -> Raw(t, st)
      [] t.op = "From" -> From(t, st)
      [] t.op = "Pure" -> Pure(t, st)
      [] t.op = "Fail" -> Fail(t, st)
      [] t.op = "Map" -> Map(t, st)
      [] t.op = "FlatMap" -> FlatMap(t, st)
      [] t.op = "Tap" -> Tap(t, st)
      [] t.op = "TapErr" -> TapErr(t, st)
      [] t.op = "Ensure" -> Ensure(t, st)
      [] t.op = "Bracket" -> Bracket(t, st)
      [] t.op = "Timeout" -> Timeout(t, st)
      [] t.op = "Retry" -> RetryLoop(t, 1, IF t.arg <= 0 THEN 1 ELSE t.arg, st)
      [] t.op = "Sequence" -> Sequence(t, st)
      [] t.op = "Race" -> RaceNone(t, st)
      [] t.op = "Delay" -> Delay(t, st)
      [] t.op = "Attempt" -> Attempt(t, st)
      [] t.op = "TraverseParN" -> TraverseEmpty(t, st)
      [] t.op = "FromResult" -> FromResult(t, st)
      [] t.op = "FromOption" -> FromOption(t, st)
      [] t.op = "ToResultTask" -> ToResultTask(t, st)

(***************************************************************************)
(* The task expressions that are invoked.                                  *)
(***************************************************************************)
RawFns == {T(op, 1, <<>>) : op \in RawOps}

Constructors ==
    {T("From", 0, <<f>>) : f \in RawFns}
    \cup {T("Pure", 1, <<>>), T("Fail", 1, <<>>), T("Fail", 0, <<>>)}
    \cup {T("FromResult", a, <<>>) : a \in {1, -1}}
    \cup {T("FromOption", a, <<>>) : a \in {1, 0, -1, -2}}

\* The tasks that need no task to be built.
Leaves ==
    RawFns \cup Constructors
    \cup {T("Delay", 0, <<>>), T("Delay", 1, <<>>), T("Race", 0, <<>>)}

\* The tasks that the functions given to FlatMap and Bracket return.
Continuations ==
    {T("Pure", 2, <<>>), T("Fail", 2, <<>>), T("RawOk", 2, <<>>), T("RawFail", 2, <<>>),
     T("RawCancel", 2, <<>>), T("RawPanic", 2, <<>>), T("PureOf", 1, <<>>)}

UnaryOps ==
    {<<"Map", 0>>, <<"Map", 1>>, <<"Tap", 0>>, <<"TapErr", 0>>, <<"Ensure", 0>>,
     <<"Timeout", 0>>, <<"Timeout", 1>>, <<"Attempt", 0>>, <<"Retry", 2>>}

RECURSIVE Terms(_)
\* The tasks built by at most d applications of a combinator.
Terms(d) ==
    IF d = 0 THEN Leaves
    ELSE LET sub == Terms(d - 1) IN
         sub
         \cup {T(o[1], o[2], <<t>>) : o \in UnaryOps, t \in sub}
         \cup {T("FlatMap", 0, <<t, k>>) : t \in sub, k \in Continuations}
         \cup {T("Bracket", a, <<t, k>>) : t \in sub, k \in Continuations, a \in {0, 1}}

\* The tasks that can stand at place i of the list given to Sequence: a
\* function that records i, bare or wrapped by From.
SequenceTasks(i) ==
    {T(f.op, i, <<>>) : f \in RawFns} \cup {T("From", 0, <<T(f.op, i, <<>>)>>) : f \in RawFns}

SequenceLists ==
    {<<>>}
    \cup {<<a>> : a \in Leaves}
    \cup {<<a, b>> : a \in Leaves, b \in SequenceTasks(2)}
    \cup {<<a, b, c>> : a \in SequenceTasks(1), b \in SequenceTasks(2), c \in SequenceTasks(3)}

\* FlatMap(FlatMap(u, f), g).
AssocLeft(u, f, g) == T("FlatMap", 0, <<T("FlatMap", 0, <<u, f>>), g>>)

\* FlatMap(u, x -> FlatMap(f(x), g)).
AssocRight(u, f, g) == T("FlatMap", 0, <<u, T("FlatMapOf", 0, <<f, g>>)>>)

\* The two sides of TestTaskFlatMapAssociativity.
AssocTerms ==
    {AssocLeft(u, f, g) : u \in Leaves, f \in Continuations, g \in Continuations}
    \cup {AssocRight(u, f, g) : u \in Leaves, f \in Continuations, g \in Continuations}

\* The tasks whose value is not a plain value: they are not given to the
\* combinators above.
TopTerms ==
    {T("ToResultTask", 0, <<t>>) : t \in Terms(MaxDepth - 1)}
    \cup {T("Sequence", 0, ts) : ts \in SequenceLists}
    \cup {T("TraverseParN", 0, <<>>)}
    \cup AssocTerms

InitUnit ==
    /\ mode = "unit"
    /\ CtxInit
    /\ TimeoutIdle
    /\ TraverseIdle
    /\ RaceIdle
    /\ RetryIdle
    /\ term \in Terms(MaxDepth) \cup TopTerms
    /\ obs = <<>>
    /\ scope = -1
    /\ expired = FALSE
    /\ timer = 0
    /\ waited = 0
    /\ ulog = <<>>
    /\ mpc = "call"
    /\ ret = [val |-> Zero, err |-> Nil, panic |-> FALSE, pre |-> FALSE, checks |-> 0,
              seen |-> FALSE]

\* Where the invocation stands once its tests saw o: at its next test of
\* the context ("test": ctx.Err(); "wait": the select of timeutil.Sleep),
\* having run log and, if a function canceled the context, canceled it; or
\* past its last test ("return"), with the outcome out of the whole run.
Position(o) ==
    LET r == Run(term, St(o))
        k == Len(o) + 1
    IN IF r.st.checks >= k
       THEN LET m == r.st.marks[k] IN
            [pc |-> IF m.kind = "wait" THEN "wait" ELSE "test", timer |-> m.timer,
             log |-> SubSeq(r.st.log, 1, m.log), canceled |-> m.canceled,
             since |-> m.since, out |-> r]
       ELSE [pc |-> "return", timer |-> 0, log |-> r.st.log, canceled |-> r.st.canceled,
             since |-> -1, out |-> r]

\* The invocation runs on from its last test, which saw what o ends with,
\* up to its next test or to its end.  The deadline of a Timeout it enters
\* has not expired, and a wait it enters has just begun.
Resume(o) ==
    \E p \in {Position(o)} :
    /\ obs' = o
    /\ mpc' = p.pc
    /\ ulog' = p.log
    /\ parentDone' = (parentDone \/ p.canceled)
    /\ scope' = p.since
    /\ expired' = (expired /\ p.since >= 0 /\ p.since = scope)
    /\ timer' = p.timer
    /\ waited' = IF p.pc = "wait" THEN 0 ELSE waited

\* The caller invokes the task with its context, and the task runs up to
\* its first test of the context; pre records whether the context was
\* canceled already.
UnitCall ==
    /\ mode = "unit" /\ mpc = "call"
    /\ Resume(<<>>)
    /\ ret' = [ret EXCEPT !.pre = parentDone]
    /\ UNCHANGED <<mode, term, notUnit>>

\* ctx.Err(): the test sees the context as it is now.
UnitTest ==
    /\ mode = "unit" /\ mpc = "test"
    /\ Resume(Append(obs, Seen(parentDone, expired, FALSE)))
    /\ UNCHANGED <<mode, ret, term, notUnit>>

\* Time passes while the invocation waits in timeutil.Sleep.
UnitTick ==
    /\ mode = "unit" /\ mpc = "wait"
    /\ waited < timer
    /\ waited' = waited + 1
    /\ UNCHANGED <<parentDone, mode, mpc, ret, term, obs, scope, expired, timer, ulog,
                   notUnit>>

\* part_003:21-22: the timer has run its duration and the select takes
\* its case.
UnitSleepTimer ==
    /\ mode = "unit" /\ mpc = "wait"
    /\ waited >= timer
    /\ Resume(Append(obs, Seen(FALSE, FALSE, TRUE)))
    /\ UNCHANGED <<mode, ret, term, notUnit>>

\* part_003:19-20: the context is done and the select takes its case.
UnitSleepDone ==
    /\ mode = "unit" /\ mpc = "wait"
    /\ parentDone \/ expired
    /\ Resume(Append(obs, Seen(parentDone, expired, FALSE)))
    /\ UNCHANGED <<mode, ret, term, notUnit>>

\* task.go:225: the deadline of the Timeout that the invocation is under
\* expires; it cancels the child context unless that is canceled already.
DeadlineFire ==
    /\ mode = "unit" /\ mpc \in {"test", "wait"}
    /\ scope >= 0 /\ ~expired /\ ~parentDone
    /\ expired' = TRUE
    /\ UNCHANGED <<parentDone, mode, mpc, ret, term, obs, scope, timer, waited, ulog,
                   notUnit>>

\* The invocation returns to the caller: checks records how often it
\* tested the context and seen whether a test saw the caller's context
\* canceled.
UnitReturn ==
    /\ mode = "unit" /\ mpc = "return"
    /\ LET r == Position(obs).out IN
       ret' = [val |-> r.val, err |-> r.err, panic |-> r.panic, pre |-> ret.pre,
               checks |-> r.st.checks, seen |-> r.st.canceled]
    /\ mpc' = "done"
    /\ UNCHANGED <<parentDone, mode, term, obs, scope, expired, timer, waited, ulog,
                   notUnit>>

\* The steps of the invocation itself.
UnitStep ==
    \/ UnitCall
    \/ UnitTest
    \/ UnitTick
    \/ UnitSleepTimer
    \/ UnitSleepDone
    \/ DeadlineFire
    \/ UnitReturn

NextUnit == UnitStep \/ CallerCancel

SpecUnit == InitUnit /\ [][NextUnit]_vars

\* The sequential tasks beside ParZip and Race: the tasks that can be
\* invoked with an already canceled context.
SpecEntry ==
    (InitUnit \/ InitZip \/ InitRace)
        /\ [][UnitStep \/ ZipStep \/ RaceStep \/ CallerCancel]_vars

----------------------------------------------------------------------------
(***************************************************************************)
(* Properties of the constructors and sequential combinators.              *)
(***************************************************************************)
RECURSIVE ChecksFirst(_)
\* The task looks at its context before it runs any user function: it is
\* built by a constructor, it is a Sequence or a Retry, or it is a Map,
\* FlatMap, Tap, Timeout, Attempt, ToResultTask or Bracket whose first
\* task does.
ChecksFirst(t) ==
    \/ t.op \in {"From", "Pure", "Fail", "FromResult", "FromOption", "Sequence", "Retry"}
    \/ /\ t.op \in {"Map", "FlatMap", "Tap", "Timeout", "Attempt", "ToResultTask", "Bracket"}
       /\ ChecksFirst(t.kids[1])

\* The original C5: every task the package builds, invoked with a canceled
\* context, returns the context's error and runs no user function.
C5_Original ==
    (mode = "unit" /\ mpc = "done" /\ ret.pre) =>
        (ret.err = Canceled /\ ulog = <<>>)

\* A sequential task that looks at its context first, invoked with a
\* canceled context, returns the context's error and has run no user
\* function.
CanceledFirstUnit ==
    (mode = "unit" /\ mpc = "done" /\ ret.pre /\ ChecksFirst(term)) =>
        (ret.err = Canceled /\ ~ret.panic /\ ulog = <<>>)

\* ParZip, and Race over at least one task, called with a canceled context
\* return the context's error in the call, with no task started.
CanceledFirstPar ==
    (/\ mode \in {"zip", "race"} /\ mpc = "call" /\ parentDone
     /\ mode = "race" => tasks # <<>>
     /\ mpc' # "call") =>
        /\ mpc' = "done"
        /\ ret'.err = Canceled
        /\ ~derived'
        /\ pool' = pool /\ invoked' = invoked /\ racers' = racers

\* C5 (amended): a task built by From, Pure, Fail, FromResult or
\* FromOption, by Sequence or Retry, by ParZip, or by Race over at least
\* one task, or by Map, FlatMap, Tap, Timeout, Attempt, ToResultTask or
\* Bracket applied to such a task, invoked with an already canceled context,
\* returns the context's error and runs no user function.
C5_CanceledFirst == [](CanceledFirstUnit) /\ [][CanceledFirstPar]_vars

\* Map over From(fn) was invoked with a canceled context: fn did not run.
C5_Witness ==
    /\ mode = "unit" /\ mpc = "done" /\ ret.pre
    /\ term = T("Map", 1, <<T("From", 0, <<T("RawOk", 1, <<>>)>>)>>)
    /\ ret.err = Canceled /\ ulog = <<>>

\* The number of runs of user function f recorded in log.
Runs(log, f) == Cardinality({i \in 1..Len(log) : log[i][1] = f})

\* What acquire, the first task of the Bracket invoked, gave over the
\* observations of the invocation.
Acquired == Run(term.kids[1], St(obs))

\* The user functions run after acquire returned.
AfterAcquire == SubSeq(ulog, Len(Acquired.st.log) + 1, Len(ulog))

\* C15: in every run of a Bracket task whose acquire succeeded, use is
\* invoked once and release once, after everything use ran; when acquire
\* failed neither is invoked.
C15_ReleaseOnceAfterUse ==
    (mode = "unit" /\ mpc = "done" /\ term.op = "Bracket") =>
        IF Acquired.err # Nil
        THEN ulog = Acquired.st.log /\ ret.err = Acquired.err
        ELSE /\ Runs(AfterAcquire, "use") = 1
             /\ Runs(AfterAcquire, "release") = 1
             /\ AfterAcquire[1] = <<"use", Acquired.val>>
             /\ AfterAcquire[Len(AfterAcquire)] = <<"release", Acquired.val>>

\* What the task that use returned gave.
Used == Run(Apply(term.kids[2], Acquired.val), Ran(Acquired.st, <<"use", Acquired.val>>))

\* The error that release returned.
Released == IF term.arg = 0 THEN Nil ELSE TaskErr(term.arg)

\* C16: after a successful acquire the error of Bracket is decided by the
\* pair (use error, release error): both non-nil give one error of which
\* both are causes, only release failing gives the release error, only
\* use failing the use error, neither no error.
C16_BracketError ==
    (mode = "unit" /\ mpc = "done" /\ term.op = "Bracket" /\ ~ret.panic
        /\ Acquired.err = Nil) =>
        /\ (Used.err # Nil /\ Released # Nil) =>
               /\ ret.err \notin {Used.err, Released}
               /\ ErrorsIs(ret.err, Used.err)
               /\ ErrorsIs(ret.err, Released)
        /\ (Used.err = Nil /\ Released # Nil) => ret.err = Released
        /\ (Used.err # Nil /\ Released = Nil) => ret.err = Used.err
        /\ (Used.err = Nil /\ Released = Nil) => ret.err = Nil

\* use and release both failed, as in TestBracketJoinsErrors.
C16_Witness ==
    /\ mode = "unit" /\ mpc = "done"
    /\ term = T("Bracket", 1, <<T("Pure", 1, <<>>), T("Fail", 2, <<>>)>>)
    /\ ret.err = Join(TaskErr(2), TaskErr(1))
    /\ ErrorsIs(ret.err, TaskErr(2)) /\ ErrorsIs(ret.err, TaskErr(1))

\* What the function at place i of the list given to Sequence does.
KindAt(i) ==
    LET t == term.kids[i] IN IF t.op = "From" THEN t.kids[1].op ELSE t.op

\* The function at place i returns an error.
FailsAt(i) == KindAt(i) \in {"RawFail", "RawFailValue"}

\* C17: Sequence invokes its tasks one at a time in input order, tests
\* the context before each, and stops at the first task error or the
\* first cancellation it observes: no later task is invoked and it
\* returns an error with a nil result, never the values collected; if
\* nothing stops it, it returns the values in input order, and unless the
\* context is canceled it stops only at a task error.  Checked on lists of
\* three functions that record their place.
C17_SequenceStops ==
    (mode = "unit" /\ mpc = "done" /\ term.op = "Sequence" /\ Len(term.kids) = 3
        /\ ~ret.panic) =>
        LET last == Len(ulog) IN
        /\ last <= 3
        /\ \A i \in 1..last : ulog[i] = <<"fn", i>>
        /\ \A i \in 1..(last - 1) : ~FailsAt(i) /\ KindAt(i) # "RawCancel"
        /\ ret.pre => last = 0
        /\ ret.err # Nil => ret.val = NilSlice
        /\ (last >= 1 /\ FailsAt(last)) => ret.err = TaskErr(last)
        /\ (last < 3 /\ (last >= 1 => ~FailsAt(last))) => ret.err = Canceled
        /\ (last = 3 /\ ~FailsAt(3)) => (ret.err = Nil /\ ret.val = Slice(<<1, 2, 3>>))
        /\ ~parentDone => (last >= 1 /\ (last = 3 \/ FailsAt(last)))

\* The first task cancels the context, as in TestSequenceRespectsContext:
\* the second and third are not invoked.
C17_Witness ==
    /\ mode = "unit" /\ mpc = "done" /\ ~ret.pre
    /\ term.op = "Sequence" /\ Len(term.kids) = 3
    /\ term.kids[1] = T("From", 0, <<T("RawCancel", 1, <<>>)>>)
    /\ term.kids[2] = T("From", 0, <<T("RawOk", 2, <<>>)>>)
    /\ ulog = <<(<<"fn", 1>>)>>
    /\ ret.err = Canceled /\ ret.val = NilSlice

\* What the task wrapped by the unary combinator invoked gave, run over
\* the observations of the invocation.
Inner == Run(term.kids[1], St(obs))

\* C18: ToResultTask(t) returns t's error inside a Result, with a nil
\* task error, when t fails and the context is not canceled when
\* ToResultTask tests it; its task error is non-nil only when the context
\* is canceled and t's error is the context's error, and the Result is
\* then the empty one.
C18_ToResultTask ==
    (mode = "unit" /\ mpc = "done" /\ term.op = "ToResultTask" /\ ~ret.panic) =>
        /\ Inner.err = Nil => (ret.err = Nil /\ ret.val = Outcome(Inner.val, Nil))
        /\ (Inner.err # Nil /\ ~ret.seen) =>
               (ret.err = Nil /\ ret.val = Outcome(Zero, Inner.err))
        /\ ret.err # Nil =>
               /\ ret.seen
               /\ ErrorsIs(Inner.err, Canceled)
               /\ ret.err = Inner.err
               /\ ret.val = Outcome(Zero, Nil)
        /\ (Inner.err # Nil /\ ret.seen /\ ErrorsIs(Inner.err, Canceled)) => ret.err # Nil
        /\ term.kids[1] = T("Fail", 1, <<>>) =>
               IF ret.pre
               THEN ret.val = Outcome(Zero, Nil) /\ ret.err = Canceled
               ELSE ~ret.seen => (ret.val = Outcome(Zero, TaskErr(1)) /\ ret.err = Nil)

\* ToResultTask(Fail(err)) on a context canceled before the call.
C18_Witness ==
    /\ mode = "unit" /\ mpc = "done" /\ ret.pre
    /\ term = T("ToResultTask", 0, <<T("Fail", 1, <<>>)>>)
    /\ ret.val = Outcome(Zero, Nil) /\ ret.err = Canceled

\* C19: for every task u and every context, live or canceled,
\* Map(u, identity) gives the same value and error as u.
C19_MapIdentity ==
    (mode = "unit" /\ mpc = "done" /\ term.op = "Map" /\ term.arg = 0) =>
        (ret.val = Inner.val /\ ret.err = Inner.err /\ ret.panic = Inner.panic)

\* The other side of the associativity law for the left side invoked, run
\* over the observations of the invocation.
OtherSide ==
    Run(AssocRight(term.kids[1].kids[1], term.kids[1].kids[2], term.kids[2]),
        St(obs))

\* C20: FlatMap(FlatMap(u, f), g) and FlatMap(u, x -> FlatMap(f(x), g))
\* give the same value and error, run the same user functions in the same
\* order and test the context as often, also when the context is canceled
\* before the call or between any two steps of the run.
C20_FlatMapAssociative ==
    (mode = "unit" /\ mpc = "done" /\ term.op = "FlatMap"
        /\ term.kids[1].op = "FlatMap" /\ term.kids[2].op # "FlatMapOf") =>
        /\ ret.val = OtherSide.val
        /\ ret.err = OtherSide.err
        /\ ret.panic = OtherSide.panic
        /\ ulog = OtherSide.st.log
        /\ ret.checks = OtherSide.st.checks
        /\ ret.seen = OtherSide.st.canceled

\* u a function, f = x -> Pure(x + 1) and g a function whose task runs
\* another function: the caller cancels between the second and the third
\* test of the context, after f's task, so g is not called.
C20_Witness ==
    /\ mode = "unit" /\ mpc = "done" /\ ~ret.pre
    /\ Len(obs) = 3 /\ ~obs[2].canceled /\ obs[3].canceled
    /\ term = AssocLeft(T("RawOk", 1, <<>>), T("PureOf", 1, <<>>), T("RawOk", 2, <<>>))
    /\ ulog = <<(<<"fn", 1>>), (<<"FlatMap", 1>>)>>
    /\ ret.err = Canceled /\ ret.checks = 3

\* C23: Delay(d) with d > 0 waits until its timer of duration d fires or
\* the context is canceled, whichever comes first: it succeeds only if the
\* whole duration passed in the wait, it succeeds if the context was never
\* canceled, and otherwise it returns the context's cancellation error;
\* with d <= 0 it never waits and succeeds without looking at the context.
C23_Delay ==
    (mode = "unit" /\ term.op = "Delay") =>
        /\ mpc = "wait" => (term.arg > 0 /\ timer = term.arg /\ waited <= term.arg)
        /\ mpc = "done" =>
               /\ ~ret.panic /\ ulog = <<>> /\ ret.val = Zero
               /\ term.arg <= 0 => (ret.err = Nil /\ ret.checks = 0)
               /\ term.arg > 0 =>
                      /\ ret.err \in {Nil, Canceled}
                      /\ ret.err = Nil => (waited >= term.arg /\ obs = <<Seen(FALSE, FALSE, TRUE)>>)
                      /\ ret.err = Canceled => parentDone
                      /\ ~parentDone => ret.err = Nil
                      /\ waited < term.arg => ret.err = Canceled

\* Delay(d > 0) on a context that the caller cancels during the wait,
\* before the duration has passed.
C23_Witness ==
    /\ mode = "unit" /\ mpc = "done" /\ ~ret.pre /\ waited < term.arg
    /\ term = T("Delay", 1, <<>>)
    /\ ret.err = Canceled

\* C24: Attempt(t) never lets a panic of t reach the caller: it returns
\* the zero value and an error that embeds the panic's description; when
\* t does not panic it returns t's value and error.
C24_Attempt ==
    (mode = "unit" /\ mpc = "done" /\ term.op = "Attempt") =>
        /\ ~ret.panic
        /\ IF Inner.panic
           THEN /\ ret.val = Zero
                /\ ret.err # Nil
                /\ ret.err = errPanicRecovered(Inner.err[2])
           ELSE ret.val = Inner.val /\ ret.err = Inner.err
        /\ ulog = Inner.st.log

\* The function panicked, as in TestDelayAndAttempt.
C24_Witness ==
    /\ mode = "unit" /\ mpc = "done" /\ ~ret.pre
    /\ term = T("Attempt", 0, <<T("From", 0, <<T("RawPanic", 1, <<>>)>>)>>)
    /\ ~ret.panic /\ ret.val = Zero /\ ret.err = errPanicRecovered(1)
    /\ ulog = <<(<<"fn", 1>>)>>

----------------------------------------------------------------------------
(***************************************************************************)
(* Timeout (task.go:220-229).  The task given to Timeout is "ok", "fail"   *)
(* or "block" (it waits for its context and returns that context's error); *)
(* time is counted in ticks from the call.                                 *)
(***************************************************************************)
InitTimeout ==
    /\ mode = "timeout"
    /\ CtxInit
    /\ TraverseIdle
    /\ RaceIdle
    /\ RetryIdle
    /\ UnitIdle
    /\ wrapped \in Kinds
    /\ duration \in (-1)..MaxDuration
    /\ elapsed = 0
    /\ timerFired = FALSE
    /\ mpc = "call"
    /\ ret = Outcome(Zero, Nil)

TimeoutAlwaysDerivesMutant(dd) == TRUE

\* Whether Timeout(t, dd) wraps t at all (task.go:221-223).
timeoutDerives(dd) == dd > 0

\* task.go:221-227: Timeout(t, d) is invoked: t itself for d <= 0, else
\* context.WithTimeout derives the child and t is called with it.
TimeoutCall ==
    /\ mode = "timeout" /\ mpc = "call"
    /\ IF timeoutDerives(duration)
       THEN derived' = TRUE /\ ctxDone' = parentDone
       ELSE UNCHANGED <<derived, ctxDone>>
    /\ mpc' = "run"
    /\ UNCHANGED <<parentDone, mode, ret, ovars, notTimeout>>

\* The timer of the child context is due.
TimerDue == derived /\ ~ctxDone /\ elapsed >= duration

\* Time passes while the task runs; it does not pass a timer that is due.
Tick ==
    /\ mode = "timeout" /\ mpc = "run"
    /\ elapsed < MaxDuration
    /\ ~TimerDue
    /\ elapsed' = elapsed + 1
    /\ UNCHANGED <<cvars, mpc, ret, wrapped, duration, timerFired, notTimeout>>

\* context.WithTimeout (task.go:225): the timer fires and cancels the
\* child context with DeadlineExceeded.
TimerFire ==
    /\ mode = "timeout" /\ mpc = "run"
    /\ TimerDue
    /\ timerFired' = TRUE
    /\ ctxDone' = TRUE
    /\ UNCHANGED <<parentDone, derived, mode, mpc, ret, wrapped, duration, elapsed,
                   notTimeout>>

\* The context the wrapped task sees is done.
TaskCtxDone == IF derived THEN ctxDone ELSE parentDone

\* The error of the context the wrapped task sees, once it is done.
TaskCtxErr == IF timerFired THEN DeadlineExceeded ELSE Canceled

\* task.go:226-227: the wrapped task returns and the deferred cancel
\* releases the child context.
TimeoutTaskReturn ==
    /\ mode = "timeout" /\ mpc = "run"
    /\ CASE wrapped = "ok" -> ret' = Outcome(TaskValue(1), Nil)
         [] wrapped = "fail" -> ret' = Outcome(Zero, TaskErr(1))
         [] wrapped = "block" -> TaskCtxDone /\ ret' = Outcome(Zero, TaskCtxErr)
    /\ ctxDone' = (ctxDone \/ derived)
    /\ mpc' = "done"
    /\ UNCHANGED <<parentDone, derived, mode, ovars, notTimeout>>

TimeoutStep ==
    \/ TimeoutCall
    \/ Tick
    \/ TimerFire
    \/ TimeoutTaskReturn

NextTimeout == TimeoutStep \/ CallerCancel

SpecTimeout == InitTimeout /\ [][NextTimeout]_vars

\* C22: Timeout(t, d) with d > 0 runs t on a child context that is
\* canceled when d has elapsed or when the caller cancels, whichever comes
\* first, so that a task waiting for its context returns an error once d
\* has elapsed; the child is released when t returns.  With d <= 0 no
\* child is derived and t runs on the caller's context with no time bound.
C22_Timeout ==
    (mode = "timeout") =>
        /\ duration <= 0 => (~derived /\ ~ctxDone /\ ~timerFired)
        /\ (duration <= 0 /\ mpc = "done" /\ wrapped = "block") =>
               (parentDone /\ ret = Outcome(Zero, Canceled))
        /\ (duration > 0 /\ mpc = "run") =>
               /\ derived
               /\ ctxDone <=> (parentDone \/ timerFired)
               /\ timerFired => elapsed >= duration
               /\ ~ctxDone => elapsed <= duration
               /\ (wrapped = "block" /\ timerFired) => ENABLED TimeoutTaskReturn
        /\ (duration > 0 /\ mpc = "done") =>
               /\ ctxDone
               /\ wrapped = "block" =>
                      /\ ret = Outcome(Zero, IF timerFired THEN DeadlineExceeded ELSE Canceled)
                      /\ ~timerFired => parentDone

\* A task that waits for its context, bounded by one tick, on a context
\* the caller never cancels: it returns the deadline's error.
C22_Witness ==
    /\ mode = "timeout" /\ mpc = "done" /\ ~parentDone
    /\ wrapped = "block" /\ duration = 1 /\ elapsed = 1 /\ timerFired
    /\ ret = Outcome(Zero, DeadlineExceeded)

----------------------------------------------------------------------------
(***************************************************************************)
(* The combinators that derive a child context, side by side.              *)
(***************************************************************************)
\* TraverseParN and ParZip, which share pullError and the rule of
\* publishing before canceling.
SpecPar == (InitTraverse \/ InitZip) /\ [][TraverseStep \/ ZipStep \/ CallerCancel]_vars

\* A step of one of the combinators that derive a child context.
CombinatorStep == TraverseStep \/ ZipStep \/ RaceStep \/ TimeoutStep

SpecDerive ==
    /\ InitTraverse \/ InitZip \/ InitRace \/ InitTimeout
    /\ [][CombinatorStep \/ CallerCancel]_vars

\* C28: the cancellations TraverseParN, Race, ParZip and Timeout perform
\* themselves cancel the derived child context only, never the caller's
\* context; a cancellation of the caller's context always cancels the
\* derived child.
C28_Frame ==
    [][/\ CombinatorStep => parentDone' = parentDone
       /\ (derived' /\ parentDone') => ctxDone']_vars

\* ParZip has canceled its child context after a failure while the
\* caller's context is live.
C28_Witness ==
    /\ mode = "zip" /\ mpc = "wait"
    /\ derived /\ ctxDone /\ ~parentDone
    /\ \E s \in At("done") : s.err # Nil

\* The first error published is the error of a failing invocation.
PublishedFailure ==
    \E i \in DOMAIN items : items[i].kind = "fail" /\ firstPub = FnError(items[i])

\* C30: in TraverseParN and ParZip, while the caller's context is not
\* canceled, the child context is canceled only after a failing invocation
\* has published its error, and the error returned is that error, never
\* the cancellation error of a sibling.
C30_ErrorIsTheCause ==
    (mode \in {"traverse", "zip"} /\ ~parentDone) =>
        /\ (derived /\ ctxDone /\ mpc # "done") => (PublishedFailure /\ errCh # <<>>)
        /\ (mpc = "done" /\ ret.err # Nil) =>
               (PublishedFailure /\ ret.err = firstPub /\ ret.err # Canceled)

\* The left task failed and the right one, waiting for its context,
\* published its cancellation error second; the failure is returned.
C30_Witness ==
    /\ mode = "zip" /\ mpc = "done" /\ ~parentDone
    /\ items[1].kind = "fail" /\ items[2].kind = "block"
    /\ ret.err = TaskErr(1)
    /\ errCh = <<Canceled>>

=============================================================================
